---- MODULE Spec2Model ----
(***************************************************************************)
(* Abbreviation extraction core of Maryna_Project2_Q3_cloud.py:            *)
(* build_initials, truncate_words_for_ampersand, phrase_matches_abbr,      *)
(* normalize_phrase_caps and extract_abbreviation_pairs.                   *)
(*                                                                         *)
(* A Python string is a sequence of characters; a character is a           *)
(* one-character TLA+ string, except the two non-ASCII characters the      *)
(* source names, which are the atoms ENDASH (U+2013) and RSQUO (U+2019).   *)
(***************************************************************************)
EXTENDS Integers, Sequences, FiniteSets, TLC

VARIABLES
    text, pc, abbr_dict, matches, abbr, phrase_raw, words, start, best_words,
    truncated, written,
    phrase, once, twice, npc,
    mwords, mabbr, mresult, mpc

vars == << text, pc, abbr_dict, matches, abbr, phrase_raw, words, start,
           best_words, truncated, written, phrase, once, twice, npc,
           mwords, mabbr, mresult, mpc >>

extractVars == << text, pc, abbr_dict, matches, abbr, phrase_raw, words, start,
                  best_words, truncated, written >>
normVars == << phrase, once, twice, npc >>
matchVars == << mwords, mabbr, mresult, mpc >>

(***************************************************************************)
(* Characters and the str methods the source uses.                         *)
(***************************************************************************)
ENDASH == "endash"
RSQUO == "rsquo"

UpperSeq == << "A","B","C","D","E","F","G","H","I","J","K","L","M",
               "N","O","P","Q","R","S","T","U","V","W","X","Y","Z" >>
LowerSeq == << "a","b","c","d","e","f","g","h","i","j","k","l","m",
               "n","o","p","q","r","s","t","u","v","w","x","y","z" >>
UpperSet == { UpperSeq[i] : i \in 1..26 }
LowerSet == { LowerSeq[i] : i \in 1..26 }
DigitSet == { "0","1","2","3","4","5","6","7","8","9" }
SpaceSet == { " ", "\n", "\t" }

ToUpperMap == [ c \in LowerSet |-> UpperSeq[CHOOSE i \in 1..26 : LowerSeq[i] = c] ]
ToLowerMap == [ c \in UpperSet |-> LowerSeq[CHOOSE i \in 1..26 : UpperSeq[i] = c] ]

\* ch.isalpha(), ch.isdigit(), the regex classes \w and \s
IsAlpha(c) == c \in UpperSet \/ c \in LowerSet
IsDigit(c) == c \in DigitSet
IsWordChar(c) == IsAlpha(c) \/ IsDigit(c) \/ c = "_"
IsSpace(c) == c \in SpaceSet

\* ch.upper(), ch.lower()
ChUpper(c) == IF c \in LowerSet THEN ToUpperMap[c] ELSE c
ChLower(c) == IF c \in UpperSet THEN ToLowerMap[c] ELSE c

\* s.upper(), s.lower()
StrUpper(s) == [ i \in 1..Len(s) |-> ChUpper(s[i]) ]
StrLower(s) == [ i \in 1..Len(s) |-> ChLower(s[i]) ]

\* s.isupper(): at least one cased character and no lower-case one
StrIsUpper(s) ==
    /\ \E i \in 1..Len(s) : s[i] \in UpperSet
    /\ \A i \in 1..Len(s) : s[i] \notin LowerSet

\* s[a:b] with 0-based a and exclusive b, as Python slices
Slice(s, a, b) == IF a >= b THEN << >> ELSE SubSeq(s, a + 1, b)

\* s.startswith(p)
StartsWith(s, p) == Len(p) <= Len(s) /\ SubSeq(s, 1, Len(p)) = p

\* number of leading / trailing characters of s that satisfy the class cs
RECURSIVE LeadRun(_, _, _)
LeadRun(s, cs, i) ==
    IF i <= Len(s) /\ s[i] \in cs THEN LeadRun(s, cs, i + 1) ELSE i - 1

RECURSIVE TrailRun(_, _, _)
TrailRun(s, cs, i) ==
    IF i >= 1 /\ s[i] \in cs THEN TrailRun(s, cs, i - 1) ELSE Len(s) - i

\* s.strip(chars)
Strip(s, cs) ==
    LET a == LeadRun(s, cs, 1)
    IN  IF a = Len(s) THEN << >>
        ELSE SubSeq(s, a + 1, Len(s) - TrailRun(s, cs, Len(s)))

\* the concatenation F(lo) \o ... \o F(hi), by halves so that long strings
\* do not nest the evaluation deeply
RECURSIVE Gather(_, _, _)
Gather(F(_), lo, hi) ==
    IF lo > hi THEN << >>
    ELSE IF lo = hi THEN F(lo)
    ELSE LET mid == (lo + hi) \div 2
         IN  Gather(F, lo, mid) \o Gather(F, mid + 1, hi)

\* index of the last character of the run of non-whitespace starting at i
RECURSIVE WordEnd(_, _)
WordEnd(s, i) ==
    IF i + 1 <= Len(s) /\ s[i + 1] \notin SpaceSet THEN WordEnd(s, i + 1) ELSE i

\* s.split(): the maximal runs of non-whitespace characters
Split(s) ==
    Gather(LAMBDA i : IF s[i] \notin SpaceSet /\ (i = 1 \/ s[i - 1] \in SpaceSet)
                      THEN << SubSeq(s, i, WordEnd(s, i)) >>
                      ELSE << >>,
           1, Len(s))

\* sep.join(parts)
Join(parts, sep) ==
    Gather(LAMBDA i : IF i = 1 THEN parts[i] ELSE sep \o parts[i], 1, Len(parts))

\* first_alpha_char(s); NoChar stands for None
NoChar == "None"

RECURSIVE FirstAlphaFrom(_, _)
FirstAlphaFrom(s, i) ==
    IF i > Len(s) THEN NoChar
    ELSE IF IsAlpha(s[i]) THEN s[i]
    ELSE FirstAlphaFrom(s, i + 1)

first_alpha_char(s) == FirstAlphaFrom(s, 1)

(***************************************************************************)
(* Helper constants of the source.                                         *)
(***************************************************************************)
PREPS == {
    <<"o","f">>, <<"f","o","r">>, <<"i","n">>, <<"o","n">>, <<"a","t">>,
    <<"b","y">>, <<"t","o">>, <<"f","r","o","m">>, <<"w","i","t","h">>,
    <<"a","b","o","u","t">>, <<"i","n","t","o">>, <<"o","v","e","r">>,
    <<"u","n","d","e","r">>, <<"b","e","t","w","e","e","n">>,
    <<"t","h","r","o","u","g","h">>,
    <<"t","h","e">>, <<"a">>, <<"a","n">>, <<"i","s">>, <<"a","r","e">>,
    <<"w","a","s">>, <<"w","e","r","e">>, <<"b","e">>, <<"b","e","i","n","g">>,
    <<"t","h","i","s">>, <<"t","h","a","t">>, <<"t","h","e","s","e">>,
    <<"t","h","o","s","e">>, <<"a","s">>, <<"t","h","a","n">>, <<"v","i","a">> }

PREFIXES == <<
    <<"a","u","t","o">>, <<"m","u","l","t","i">>, <<"m","i","c","r","o">>,
    <<"m","a","c","r","o">>,
    <<"e","l","e","c","t","r","o">>, <<"h","y","p","e","r">>, <<"h","y","p","o">>,
    <<"i","n","t","e","r">>, <<"i","n","t","r","a">>,
    <<"u","l","t","r","a">>, <<"s","u","p","e","r">>, <<"s","u","b">>,
    <<"t","r","a","n","s">> >>

AND == <<"a","n","d">>
OR == <<"o","r">>

\* the boundary punctuation of w.strip(".,;:()[]")
BoundaryPunct == { ".", ",", ";", ":", "(", ")", "[", "]" }

\* the characters of .strip(" ,.;:")
PhrasePunct == { " ", ",", ".", ";", ":" }

(***************************************************************************)
(* normalize_phrase_caps                                                   *)
(***************************************************************************)
\* \W of the regex engine, as a predicate
IsNonWord(c) == ~IsWordChar(c)

RECURSIVE LeadNonWord(_, _)
LeadNonWord(s, i) ==
    IF i <= Len(s) /\ IsNonWord(s[i]) THEN LeadNonWord(s, i + 1) ELSE i - 1

RECURSIVE TrailNonWord(_, _)
TrailNonWord(s, i) ==
    IF i >= 1 /\ IsNonWord(s[i]) THEN TrailNonWord(s, i - 1) ELSE Len(s) - i

\* re.split(r"([-–])", core): the parts and the separators, alternating
RECURSIVE SplitHyphen(_, _, _)
SplitHyphen(s, i, cur) ==
    IF i > Len(s) THEN << cur >>
    ELSE IF s[i] \in { "-", ENDASH }
         THEN << cur, << s[i] >> >> \o SplitHyphen(s, i + 1, << >>)
         ELSE SplitHyphen(s, i + 1, Append(cur, s[i]))

\* p[0].upper() + p[1:].lower()
Capitalize(p) ==
    IF p = << >> THEN << >>
    ELSE << ChUpper(p[1]) >> \o StrLower(Tail(p))

RECURSIVE TitleParts(_, _)
TitleParts(parts, j) ==
    IF j > Len(parts) THEN << >>
    ELSE (IF j % 2 = 0 THEN parts[j] ELSE Capitalize(parts[j]))
         \o TitleParts(parts, j + 1)

HasDigit(core) == \E i \in 1..Len(core) : IsDigit(core[i])

lower_words == PREPS \cup { AND, OR }

\* NewCore without the digit test of 'core.isupper() or has_digit'
NewCore_NoDigitRule(core, is_first) ==
    IF StrIsUpper(core) THEN core
    ELSE IF StrLower(core) \in lower_words /\ ~is_first THEN StrLower(core)
    ELSE TitleParts(SplitHyphen(core, 1, << >>), 1)

NewCore(core, is_first) ==
    IF StrIsUpper(core) \/ HasDigit(core) THEN core
    ELSE IF StrLower(core) \in lower_words /\ ~is_first THEN StrLower(core)
    ELSE TitleParts(SplitHyphen(core, 1, << >>), 1)

\* re.sub(r"[’']s(?=\W*$)", "", w): every match is removed (two matches
\* cannot overlap: the second character of one is not the first of another)
PossessiveAt(w, i) ==
    /\ i >= 1
    /\ i + 1 <= Len(w)
    /\ w[i] \in { "'", RSQUO }
    /\ w[i + 1] = "s"
    /\ \A k \in (i + 2)..Len(w) : IsNonWord(w[k])

StripPossessive(w) ==
    Gather(LAMBDA i : IF PossessiveAt(w, i) \/ PossessiveAt(w, i - 1)
                      THEN << >> ELSE << w[i] >>,
           1, Len(w))

\* NormalizeWord that drops a word with an empty core instead of keeping it
NormalizeWord_DropEmptyCore(word, is_first, is_last) ==
    LET startc == LeadNonWord(word, 1)
        endc == Len(word) - TrailNonWord(word, Len(word))
        prefix == Slice(word, 0, startc)
        core == Slice(word, startc, endc)
        suffix == Slice(word, endc, Len(word))
        word_final == prefix \o NewCore(core, is_first) \o suffix
    IN  IF core = << >> THEN << >>
        ELSE IF is_last THEN << StripPossessive(word_final) >>
        ELSE << word_final >>

NormalizeWord(word, is_first, is_last) ==
    LET startc == LeadNonWord(word, 1)
        endc == Len(word) - TrailNonWord(word, Len(word))
        prefix == Slice(word, 0, startc)
        core == Slice(word, startc, endc)
        suffix == Slice(word, endc, Len(word))
        word_final == prefix \o NewCore(core, is_first) \o suffix
    IN  IF core = << >> THEN << word >>
        ELSE IF is_last THEN << StripPossessive(word_final) >>
        ELSE << word_final >>

\* the list 'result' before the final join
normalize_result(p) ==
    LET ws == Split(p)
    IN  Gather(LAMBDA i : NormalizeWord(ws[i], i = 1, i = Len(ws)), 1, Len(ws))

normalize_phrase_caps(p) == Join(normalize_result(p), << " " >>)

(***************************************************************************)
(* build_initials                                                          *)
(***************************************************************************)
\* [w.strip(".,;:()[]") for w in words if w.strip(".,;:()[]")]
Cleaned(ws) ==
    Gather(LAMBDA i : IF Strip(ws[i], BoundaryPunct) = << >> THEN << >>
                      ELSE << Strip(ws[i], BoundaryPunct) >>,
           1, Len(ws))

\* w.replace("-", " ").replace("–", " ")
ReplaceHyphens(w) ==
    [ i \in 1..Len(w) |-> IF w[i] \in { "-", ENDASH } THEN " " ELSE w[i] ]

\* the initial of ch, when first_alpha_char found one
InitialOf(ch) == IF ch = NoChar THEN << >> ELSE << ChUpper(ch) >>

\* index of the first prefix that p starts with and is longer than; 0 if none
RECURSIVE FirstPrefix(_, _)
FirstPrefix(p, k) ==
    IF k > Len(PREFIXES) THEN 0
    ELSE IF StartsWith(p, PREFIXES[k]) /\ Len(p) > Len(PREFIXES[k]) THEN k
    ELSE FirstPrefix(p, k + 1)

\* PartInitials that never splits a prefix off
PartInitials_NoPrefix(p, use_prefixes) == InitialOf(first_alpha_char(p))

\* the initials one part p contributes
PartInitials(p, use_prefixes) ==
    LET k == IF use_prefixes THEN FirstPrefix(p, 1) ELSE 0
    IN  IF k > 0
        THEN << ChUpper(PREFIXES[k][1]) >>
             \o InitialOf(first_alpha_char(Slice(p, Len(PREFIXES[k]), Len(p))))
        ELSE InitialOf(first_alpha_char(p))

PartsInitials(parts, use_prefixes) ==
    Gather(LAMBDA j : PartInitials(parts[j], use_prefixes), 1, Len(parts))

\* the initials one cleaned word w contributes
WordInitials(w, use_prefixes) ==
    LET word_lc == StrLower(w)
    IN  IF word_lc = AND \/ word_lc \in PREPS THEN << >>
        ELSE PartsInitials(Split(StrLower(ReplaceHyphens(w))), use_prefixes)

CleanedInitials(cl, use_prefixes) ==
    Gather(LAMBDA i : WordInitials(cl[i], use_prefixes), 1, Len(cl))

\* has_and: some cleaned word is "and" and the abbreviation has '&'
SawAnd(cl, has_amp) ==
    has_amp /\ \E i \in 1..Len(cl) : StrLower(cl[i]) = AND

build_initials(ws, has_amp, use_prefixes) ==
    LET cl == Cleaned(ws)
    IN  [ initials |-> CleanedInitials(cl, use_prefixes),
          has_and |-> SawAnd(cl, has_amp) ]

(***************************************************************************)
(* truncate_words_for_ampersand                                            *)
(***************************************************************************)
RECURSIVE TruncateFrom(_, _, _, _)
TruncateFrom(ws, letters_only, i, collected) ==
    IF i > Len(ws) THEN << >>
    ELSE LET w == ws[i]
             core == Strip(w, BoundaryPunct)
             low == StrLower(core)
             first_alpha == first_alpha_char(core)
         IN  IF core = << >> \/ low \in PREPS \/ low = AND \/ first_alpha = NoChar
             THEN << w >> \o TruncateFrom(ws, letters_only, i + 1, collected)
             ELSE IF /\ Len(collected) < Len(letters_only)
                     /\ first_alpha = letters_only[Len(collected) + 1]
                  THEN IF Len(collected) + 1 = Len(letters_only)
                       THEN << w >>
                       ELSE << w >> \o TruncateFrom(ws, letters_only, i + 1,
                                                    Append(collected, first_alpha))
                  ELSE << >>

truncate_words_for_ampersand(ws, letters_only) ==
    TruncateFrom(ws, letters_only, 1, << >>)

(***************************************************************************)
(* phrase_matches_abbr                                                     *)
(***************************************************************************)
\* "".join(c for c in abbr if c.isalpha())
letters_only_raw(a) == SelectSeq(a, IsAlpha)

LettersOnly(a) == StrUpper(letters_only_raw(a))

HasAmp(a) == \E i \in 1..Len(a) : a[i] = "&"

Candidates(a) ==
    LET lo == LettersOnly(a)
    IN  { lo } \cup (IF Len(lo) >= 3 /\ lo[Len(lo)] = "S"
                     THEN { SubSeq(lo, 1, Len(lo) - 1) } ELSE { })

\* check whose special rule for two-letter '&' forms forgets has_and
check_SpecialRuleWithoutAnd(a, initials_str, has_and) ==
    \/ initials_str \in Candidates(a) /\ (~HasAmp(a) \/ has_and)
    \/ /\ HasAmp(a)
       /\ Len(LettersOnly(a)) = 2
       /\ StartsWith(initials_str, LettersOnly(a))
       /\ Len(initials_str) > Len(LettersOnly(a))

\* the nested function check(initials_str, has_and)
check(a, initials_str, has_and) ==
    \/ initials_str \in Candidates(a) /\ (~HasAmp(a) \/ has_and)
    \/ /\ HasAmp(a)
       /\ Len(LettersOnly(a)) = 2
       /\ StartsWith(initials_str, LettersOnly(a))
       /\ Len(initials_str) > Len(LettersOnly(a))
       /\ has_and

\* the first attempt is enough to decide: accepted, or already too many initials
EarlyReturn(a, base) == Len(base.initials) >= Len(LettersOnly(a))

phrase_matches_abbr(ws, a) ==
    LET base == build_initials(ws, HasAmp(a), FALSE)
        pref == build_initials(ws, HasAmp(a), TRUE)
    IN  IF check(a, base.initials, base.has_and) THEN TRUE
        ELSE IF EarlyReturn(a, base) THEN FALSE
        ELSE check(a, pref.initials, pref.has_and)

(***************************************************************************)
(* Values of the variables a specification does not use.                   *)
(***************************************************************************)
None == << "None" >>
EmptyDict == [ k \in { } |-> << >> ]

ExtractIdle ==
    /\ text = << >>
    /\ pc = "idle"
    /\ abbr_dict = EmptyDict
    /\ matches = << >>
    /\ abbr = None
    /\ phrase_raw = None
    /\ words = << >>
    /\ start = 0
    /\ best_words = << >>
    /\ truncated = << >>
    /\ written = << >>

NormIdle ==
    /\ phrase = << >>
    /\ once = None
    /\ twice = None
    /\ npc = "idle"

MatchIdle ==
    /\ mwords = << >>
    /\ mabbr = None
    /\ mresult = FALSE
    /\ mpc = "idle"

\* all sequences over S of length lo..hi
SeqsOf(S, lo, hi) == UNION { [ 1..n -> S ] : n \in lo..hi }

(***************************************************************************)
(* SpecNorm: normalize_phrase_caps applied to a phrase, and applied again  *)
(* to its own output.                                                      *)
(***************************************************************************)
MaxPhraseLen == 5
NormAlphabet == { "o", "f", "s", "B", "4", "'", "-", " " }

InitNorm ==
    /\ phrase \in SeqsOf(NormAlphabet, 0, MaxPhraseLen)
    /\ once = None
    /\ twice = None
    /\ npc = "start"
    /\ ExtractIdle
    /\ MatchIdle

NormalizeOnce ==
    /\ npc = "start"
    /\ once' = normalize_phrase_caps(phrase)
    /\ npc' = "once"
    /\ UNCHANGED << phrase, twice, extractVars, matchVars >>

NormalizeTwice ==
    /\ npc = "once"
    /\ twice' = normalize_phrase_caps(once)
    /\ npc' = "twice"
    /\ UNCHANGED << phrase, once, extractVars, matchVars >>

NextNorm == NormalizeOnce \/ NormalizeTwice

SpecNorm == InitNorm /\ [][NextNorm]_vars

(***************************************************************************)
(* SpecMatch: phrase_matches_abbr applied to a word list and a token of    *)
(* the shape [A-Z&]{2,}[sS]? that patterns 1 and 2 capture.                *)
(***************************************************************************)
MaxMatchWords == 2
MaxAbbrRun == 3
AbbrAlphabet == { "I", "M", "&" }
AbbrSuffixes == { << >>, << "s" >>, << "S" >> }
AbbrTokens ==
    { r \o x : r \in SeqsOf(AbbrAlphabet, 2, MaxAbbrRun), x \in AbbrSuffixes }

\* the words of the matcher's inputs
W_Intramuscular == <<"I","n","t","r","a","m","u","s","c","u","l","a","r">>
W_IntramuscularUnit == <<"I","n","t","r","a","m","u","s","c","u","l","a","r","-","U","n","i","t">>
W_Mass == <<"M","a","s","s">>
W_and == <<"a","n","d">>
W_AndComma == <<"A","n","d",",">>
W_of == <<"o","f">>
W_InterState == <<"I","n","t","e","r","-","S","t","a","t","e">>

MatchVocabulary == {
    W_Intramuscular, W_IntramuscularUnit, W_Mass, W_and, W_AndComma, W_of, W_InterState }

InitMatch ==
    /\ mwords \in SeqsOf(MatchVocabulary, 0, MaxMatchWords)
    /\ mabbr \in AbbrTokens
    /\ mresult = FALSE
    /\ mpc = "start"
    /\ ExtractIdle
    /\ NormIdle

Match ==
    /\ mpc = "start"
    /\ mresult' = phrase_matches_abbr(mwords, mabbr)
    /\ mpc' = "matched"
    /\ UNCHANGED << mwords, mabbr, extractVars, normVars >>

NextMatch == Match

SpecMatch == InitMatch /\ [][NextMatch]_vars

(***************************************************************************)
(* The four anchor patterns of extract_abbreviation_pairs.  A match is a   *)
(* record: start is m.start() (0-based), stop the 1-based index of its     *)
(* last character, g1..g3 the captured groups.  Every quantifier of the    *)
(* patterns is followed by a character its class excludes (or, for the     *)
(* optional [sS], by one the match cannot do without), so the greedy       *)
(* choice is the only one that can match and no backtracking is modelled.  *)
(***************************************************************************)
NoMatch == [ ok |-> FALSE ]

\* \b between s[i-1] and s[i] (1-based i)
WordBoundary(s, i) ==
    LET before == i >= 2 /\ i - 1 <= Len(s) /\ IsWordChar(s[i - 1])
        after == i >= 1 /\ i <= Len(s) /\ IsWordChar(s[i])
    IN  before # after

\* the least / greatest element of a non-empty set of integers
Least(S) == CHOOSE x \in S : \A y \in S : x <= y
Greatest(S) == CHOOSE x \in S : \A y \in S : x >= y

\* smallest j >= i with s[j] = c, or 0
FindChar(s, c, i) ==
    LET js == { j \in i..Len(s) : s[j] = c }
    IN  IF js = { } THEN 0 ELSE Least(js)

DigitLiteral == << "-", "d", "i", "g", "i", "t" >>
AbbrClass == UpperSet \cup { "&" }

\* pattern0a = r"\b(\d+-digit\s+([A-Z]{2,}))\s*\(([A-Z]{2,}\d+)\)"
pattern0a(s, i) ==
    LET d_end == LeadRun(s, DigitSet, i)
        lit_end == d_end + Len(DigitLiteral)
        ws_end == LeadRun(s, SpaceSet, lit_end + 1)
        up_end == LeadRun(s, UpperSet, ws_end + 1)
        paren == LeadRun(s, SpaceSet, up_end + 1) + 1
        up2_end == LeadRun(s, UpperSet, paren + 1)
        dg2_end == LeadRun(s, DigitSet, up2_end + 1)
        close == dg2_end + 1
    IN  IF /\ WordBoundary(s, i)
           /\ d_end >= i
           /\ lit_end <= Len(s)
           /\ SubSeq(s, d_end + 1, lit_end) = DigitLiteral
           /\ ws_end >= lit_end + 1
           /\ up_end >= ws_end + 2
           /\ paren <= Len(s)
           /\ s[paren] = "("
           /\ up2_end >= paren + 2
           /\ dg2_end >= up2_end + 1
           /\ close <= Len(s)
           /\ s[close] = ")"
        THEN [ ok |-> TRUE, start |-> i - 1, stop |-> close,
               g1 |-> SubSeq(s, i, up_end),
               g2 |-> SubSeq(s, ws_end + 1, up_end),
               g3 |-> SubSeq(s, paren + 1, dg2_end) ]
        ELSE NoMatch

\* the tail \s*\(([^)]+)\) of patterns 0b and 1, after the token ending at e
ParenTail(s, i, e) ==
    LET paren == LeadRun(s, SpaceSet, e + 1) + 1
        close == FindChar(s, ")", paren + 1)
    IN  IF /\ paren <= Len(s)
           /\ s[paren] = "("
           /\ close > paren + 1
        THEN [ ok |-> TRUE, start |-> i - 1, stop |-> close,
               g1 |-> SubSeq(s, i, e),
               g2 |-> SubSeq(s, paren + 1, close - 1),
               g3 |-> << >> ]
        ELSE NoMatch

\* pattern0b = r"\b([A-Z]{2,}\d+)\s*\(([^)]+)\)"
pattern0b(s, i) ==
    LET up_end == LeadRun(s, UpperSet, i)
        dg_end == LeadRun(s, DigitSet, up_end + 1)
    IN  IF WordBoundary(s, i) /\ up_end >= i + 1 /\ dg_end >= up_end + 1
        THEN ParenTail(s, i, dg_end)
        ELSE NoMatch

\* the token [A-Z&]{2,}[sS]? starting at i: the index of its last character,
\* or 0.  After the greedy run an upper-case S is inside the run, so only a
\* lower-case s is left for the optional class.
TokenEnd(s, i) ==
    LET run_end == LeadRun(s, AbbrClass, i)
    IN  IF run_end < i + 1 THEN 0
        ELSE IF run_end + 1 <= Len(s) /\ s[run_end + 1] = "s" THEN run_end + 1
        ELSE run_end

\* pattern1 = r"\b([A-Z&]{2,}[sS]?)\s*\(([^)]+)\)"
pattern1(s, i) ==
    LET e == TokenEnd(s, i)
    IN  IF WordBoundary(s, i) /\ e > 0 THEN ParenTail(s, i, e) ELSE NoMatch

\* pattern2 = r"\(([A-Z&]{2,}[sS]?)[^)]*\)"
pattern2(s, i) ==
    LET e == TokenEnd(s, i + 1)
        close == FindChar(s, ")", e + 1)
    IN  IF /\ i <= Len(s)
           /\ s[i] = "("
           /\ e > 0
           /\ close > 0
        THEN [ ok |-> TRUE, start |-> i - 1, stop |-> close,
               g1 |-> SubSeq(s, i + 1, e), g2 |-> << >>, g3 |-> << >> ]
        ELSE NoMatch

MatchAt(pat, s, i) ==
    CASE pat = "0a" -> pattern0a(s, i)
      [] pat = "0b" -> pattern0b(s, i)
      [] pat = "1" -> pattern1(s, i)
      [] pat = "2" -> pattern2(s, i)

\* re.finditer(pattern, text): the non-overlapping matches, leftmost first;
\* hits are the positions where the pattern matches
RECURSIVE FinditerFrom(_, _, _, _)
FinditerFrom(pat, s, hits, i) ==
    LET later == { j \in hits : j >= i }
    IN  IF later = { } THEN << >>
        ELSE LET m == MatchAt(pat, s, Least(later))
             IN  << m >> \o FinditerFrom(pat, s, hits, m.stop + 1)

finditer(pat, s) ==
    FinditerFrom(pat, s, { i \in 1..Len(s) : MatchAt(pat, s, i).ok }, 1)

(***************************************************************************)
(* The lookback of the long-form-first pass.                               *)
(***************************************************************************)
LookbackChars == 160
LookbackWords == 20

SentenceEnd == { ".", "!", "?", ";", ":" }

Max(a, b) == IF a >= b THEN a ELSE b

\* re.sub(r"\s+", " ", window): a run of whitespace becomes one space
CollapseSpace(s) ==
    Gather(LAMBDA i : IF ~IsSpace(s[i]) THEN << s[i] >>
                      ELSE IF i > 1 /\ IsSpace(s[i - 1]) THEN << >>
                      ELSE << " " >>,
           1, Len(s))

\* index of the last character of s in cs, or 0
LastIndexIn(s, cs) ==
    LET js == { j \in 1..Len(s) : s[j] \in cs }
    IN  IF js = { } THEN 0 ELSE Greatest(js)

\* re.split(r"[.!?;:]", window)[-1].strip()
LastFragment(window) ==
    Strip(Slice(window, LastIndexIn(window, SentenceEnd), Len(window)), SpaceSet)

\* text[max(0, start_paren - 160):start_paren], whitespace collapsed
Window(s, start_paren) ==
    CollapseSpace(Slice(s, Max(0, start_paren - LookbackChars), start_paren))

\* fragment.split(), cut to its last 20 words
LookbackWordList(fragment) ==
    LET ws == Split(fragment)
    IN  IF Len(ws) > LookbackWords
        THEN SubSeq(ws, Len(ws) - LookbackWords + 1, Len(ws))
        ELSE ws

\* " ".join(cand).strip(" ,.;:")
JoinPhrase(cand) == Strip(Join(cand, << " " >>), PhrasePunct)

(***************************************************************************)
(* The texts extract_abbreviation_pairs is run on: up to MaxSegments of    *)
(* the sentences below, joined by a separator.                             *)
(***************************************************************************)
MaxSegments == 2

\* "4-digit IPC (IPC4)"
T_DigitFront ==
    << "4","-","d","i","g","i","t"," ","I","P","C"," ","(","I","P","C","4",
       ")" >>

\* "IPC4 (4-digit IPC)"
T_DigitBack ==
    << "I","P","C","4"," ","(","4","-","d","i","g","i","t"," ","I","P","C",
       ")" >>

\* "IPC4 (patent code)"
T_DigitBackOther ==
    << "I","P","C","4"," ","(","p","a","t","e","n","t"," ","c","o","d","e",
       ")" >>

\* "The organization uses Intramuscular injection (IM) routinely."
T_Intramuscular ==
    << "T","h","e"," ","o","r","g","a","n","i","z","a","t","i","o","n"," ",
       "u","s","e","s"," ","I","n","t","r","a","m","u","s","c","u","l","a",
       "r"," ","i","n","j","e","c","t","i","o","n"," ","(","I","M",")"," ",
       "r","o","u","t","i","n","e","l","y","." >>

\* "The organization uses Intramuscular (IM) routinely."
T_IntramuscularOnly ==
    << "T","h","e"," ","o","r","g","a","n","i","z","a","t","i","o","n"," ",
       "u","s","e","s"," ","I","n","t","r","a","m","u","s","c","u","l","a",
       "r"," ","(","I","M",")"," ","r","o","u","t","i","n","e","l","y",
       "." >>

\* "AF (Atrial Fibrillation)"
T_AbbrFirst ==
    << "A","F"," ","(","A","t","r","i","a","l"," ","F","i","b","r","i","l",
       "l","a","t","i","o","n",")" >>

\* "the Atrial Fibrillation (AF)"
T_LongFirst ==
    << "t","h","e"," ","A","t","r","i","a","l"," ","F","i","b","r","i","l",
       "l","a","t","i","o","n"," ","(","A","F",")" >>

\* "research and development (R&D)"
T_LowerAmp ==
    << "r","e","s","e","a","r","c","h"," ","a","n","d"," ","d","e","v","e",
       "l","o","p","m","e","n","t"," ","(","R","&","D",")" >>

\* "Research and Development Department (R&D)"
T_UpperAmp ==
    << "R","e","s","e","a","r","c","h"," ","a","n","d"," ","D","e","v","e",
       "l","o","p","m","e","n","t"," ","D","e","p","a","r","t","m","e","n",
       "t"," ","(","R","&","D",")" >>

\* "and (&&)"
T_OnlyAmps ==
    << "a","n","d"," ","(","&","&",")" >>

\* "(XYZ)"
T_NoPhrase ==
    << "(","X","Y","Z",")" >>

\* "Key Performance Indicators (KPIs)"
T_Plural ==
    << "K","e","y"," ","P","e","r","f","o","r","m","a","n","c","e"," ","I",
       "n","d","i","c","a","t","o","r","s"," ","(","K","P","I","s",")" >>

\* "x x x x x x x x x x x x x x x x x x x of Atrial Fibrillation's (AF)"
T_ManyWords ==
    << "x"," ","x"," ","x"," ","x"," ","x"," ","x"," ","x"," ","x"," ","x",
       " ","x"," ","x"," ","x"," ","x"," ","x"," ","x"," ","x"," ","x"," ",
       "x"," ","x"," ","o","f"," ","A","t","r","i","a","l"," ","F","i","b",
       "r","i","l","l","a","t","i","o","n","'","s"," ","(","A","F",")" >>

Segments == {
    T_DigitFront,
    T_DigitBack,
    T_DigitBackOther,
    T_Intramuscular,
    T_IntramuscularOnly,
    T_AbbrFirst,
    T_LongFirst,
    T_LowerAmp,
    T_UpperAmp,
    T_OnlyAmps,
    T_NoPhrase,
    T_Plural,
    T_ManyWords }

Separators == { << " " >>, << ".", " ", "\n" >> }

RECURSIVE TextsOf(_, _)
TextsOf(n, sep) ==
    IF n = 1 THEN Segments
    ELSE { t \o sep \o g : t \in TextsOf(n - 1, sep), g \in Segments }

Texts == UNION { TextsOf(n, sep) : n \in 1..MaxSegments, sep \in Separators }

(***************************************************************************)
(* Spec: extract_abbreviation_pairs, one step per match of a pass and per  *)
(* iteration of the suffix loop.                                           *)
(*   pc          where the function is: pass0a, pass0b, pass1, check1      *)
(*               (pass 1 about to call the matcher), pass2, loop (the      *)
(*               suffix loop of pass 2), done                              *)
(*   matches     the matches the finditer of the current pass has left     *)
(*   best_words  << >> stands for None (a candidate is never empty)        *)
(*   truncated   the result of the call of truncate_words_for_ampersand    *)
(*               for the current match, as a list of at most one element   *)
(*   written     the assignments abbr_dict[abbr] = value, in order         *)
(***************************************************************************)
\* the test 'abbr not in abbr_dict' left out
KeyAbsent_Always(d, a) == TRUE

\* abbr not in abbr_dict
KeyAbsent(d, a) == a \notin DOMAIN d

\* abbr_dict[abbr] = value
Assign(d, a, v) == [ k \in DOMAIN d \cup { a } |-> IF k = a THEN v ELSE d[k] ]

Init ==
    /\ text \in Texts
    /\ pc = "pass0a"
    /\ abbr_dict = EmptyDict
    /\ matches = finditer("0a", text)
    /\ abbr = None
    /\ phrase_raw = None
    /\ words = << >>
    /\ start = 0
    /\ best_words = << >>
    /\ truncated = << >>
    /\ written = << >>
    /\ NormIdle
    /\ MatchIdle

\* the insertion both digit-coded passes end with
InsertIfAbsent(a, raw) ==
    LET v == normalize_phrase_caps(raw)
    IN  /\ abbr' = a
        /\ phrase_raw' = raw
        /\ IF KeyAbsent(abbr_dict, a)
           THEN /\ abbr_dict' = Assign(abbr_dict, a, v)
                /\ written' = Append(written, << a, v >>)
           ELSE UNCHANGED << abbr_dict, written >>

Pass0aMatch ==
    /\ pc = "pass0a"
    /\ matches # << >>
    /\ InsertIfAbsent(Head(matches).g3, Head(matches).g1)
    /\ matches' = Tail(matches)
    /\ UNCHANGED << text, pc, words, start, best_words, truncated, normVars, matchVars >>

Pass0aDone ==
    /\ pc = "pass0a"
    /\ matches = << >>
    /\ pc' = "pass0b"
    /\ matches' = finditer("0b", text)
    /\ UNCHANGED << text, abbr_dict, abbr, phrase_raw, words, start, best_words,
                    truncated, written, normVars, matchVars >>

Pass0bMatch ==
    /\ pc = "pass0b"
    /\ matches # << >>
    /\ InsertIfAbsent(Head(matches).g1, Strip(Head(matches).g2, PhrasePunct))
    /\ matches' = Tail(matches)
    /\ UNCHANGED << text, pc, words, start, best_words, truncated, normVars, matchVars >>

Pass0bDone ==
    /\ pc = "pass0b"
    /\ matches = << >>
    /\ pc' = "pass1"
    /\ matches' = finditer("1", text)
    /\ UNCHANGED << text, abbr_dict, abbr, phrase_raw, words, start, best_words,
                    truncated, written, normVars, matchVars >>

Pass1Match ==
    /\ pc = "pass1"
    /\ matches # << >>
    /\ abbr' = Head(matches).g1
    /\ phrase_raw' = Strip(Head(matches).g2, PhrasePunct)
    /\ matches' = Tail(matches)
    /\ IF KeyAbsent(abbr_dict, abbr')
       THEN /\ words' = Split(phrase_raw')
            /\ pc' = "check1"
       ELSE UNCHANGED << words, pc >>
    /\ UNCHANGED << text, abbr_dict, start, best_words, truncated, written,
                    normVars, matchVars >>

Pass1Check ==
    /\ pc = "check1"
    /\ IF phrase_matches_abbr(words, abbr)
       THEN LET v == normalize_phrase_caps(phrase_raw)
            IN  /\ abbr_dict' = Assign(abbr_dict, abbr, v)
                /\ written' = Append(written, << abbr, v >>)
       ELSE UNCHANGED << abbr_dict, written >>
    /\ pc' = "pass1"
    /\ UNCHANGED << text, matches, abbr, phrase_raw, words, start, best_words,
                    truncated, normVars, matchVars >>

Pass1Done ==
    /\ pc = "pass1"
    /\ matches = << >>
    /\ pc' = "pass2"
    /\ matches' = finditer("2", text)
    /\ UNCHANGED << text, abbr_dict, abbr, phrase_raw, words, start, best_words,
                    truncated, written, normVars, matchVars >>

Pass2Match ==
    /\ pc = "pass2"
    /\ matches # << >>
    /\ abbr' = Head(matches).g1
    /\ matches' = Tail(matches)
    /\ truncated' = << >>
    /\ LET fragment == LastFragment(Window(text, Head(matches).start))
       IN  IF KeyAbsent(abbr_dict, abbr') /\ fragment # << >>
           THEN /\ words' = LookbackWordList(fragment)
                /\ best_words' = << >>
                /\ start' = 0
                /\ pc' = "loop"
           ELSE UNCHANGED << words, best_words, start, pc >>
    /\ UNCHANGED << text, abbr_dict, phrase_raw, written, normVars, matchVars >>

\* LoopBody that keeps the first match instead of the last
LoopBody_FirstWins(ws, st, a, best) ==
    LET cand == Slice(ws, st, Len(ws))
    IN  IF best = << >> /\ phrase_matches_abbr(cand, a) THEN cand ELSE best

\* one iteration of 'for start in range(len(words))'
LoopBody(ws, st, a, best) ==
    LET cand == Slice(ws, st, Len(ws))
    IN  IF phrase_matches_abbr(cand, a) THEN cand ELSE best

LoopStep ==
    /\ pc = "loop"
    /\ start < Len(words)
    /\ best_words' = LoopBody(words, start, abbr, best_words)
    /\ start' = start + 1
    /\ UNCHANGED << text, pc, abbr_dict, matches, abbr, phrase_raw, words,
                    truncated, written, normVars, matchVars >>

\* the abbreviation is a two-letter '&' form
IsAmpPair(a) == HasAmp(a) /\ Len(letters_only_raw(a)) = 2

LoopEnd ==
    /\ pc = "loop"
    /\ start = Len(words)
    /\ IF JoinPhrase(best_words) # << >>
       THEN LET tw == truncate_words_for_ampersand(best_words, letters_only_raw(abbr))
                best_phrase == IF IsAmpPair(abbr) THEN JoinPhrase(tw)
                               ELSE JoinPhrase(best_words)
                v == normalize_phrase_caps(best_phrase)
            IN  /\ abbr_dict' = Assign(abbr_dict, abbr, v)
                /\ written' = Append(written, << abbr, v >>)
                /\ truncated' = IF IsAmpPair(abbr) THEN << tw >> ELSE << >>
       ELSE UNCHANGED << abbr_dict, written, truncated >>
    /\ pc' = "pass2"
    /\ UNCHANGED << text, matches, abbr, phrase_raw, words, start, best_words,
                    normVars, matchVars >>

Pass2Done ==
    /\ pc = "pass2"
    /\ matches = << >>
    /\ pc' = "done"
    /\ UNCHANGED << text, abbr_dict, matches, abbr, phrase_raw, words, start,
                    best_words, truncated, written, normVars, matchVars >>

Next ==
    \/ Pass0aMatch
    \/ Pass0aDone
    \/ Pass0bMatch
    \/ Pass0bDone
    \/ Pass1Match
    \/ Pass1Check
    \/ Pass1Done
    \/ Pass2Match
    \/ LoopStep
    \/ LoopEnd
    \/ Pass2Done

Spec == Init /\ [][Next]_vars

(***************************************************************************)
(* Claims.                                                                 *)
(***************************************************************************)
K_IPC4 == << "I","P","C","4" >>
K_IM == << "I","M" >>

\* C1 (Spec): every key is assigned at most once, and the mapping holds for
\* each key the value of its first (hence only) assignment: no later match of
\* the same or of a later pass changes it.
C1_FirstInsertionWins ==
    /\ \A i, j \in 1..Len(written) : i < j => written[i][1] # written[j][1]
    /\ DOMAIN abbr_dict = { written[i][1] : i \in 1..Len(written) }
    /\ \A i \in 1..Len(written) : abbr_dict[written[i][1]] = written[i][2]

\* a match of pass 0b for a key that an earlier match wrote with another
\* value has been processed, and the key still holds the earlier value
C1_Witness ==
    /\ pc = "pass0b"
    /\ abbr \in DOMAIN abbr_dict
    /\ phrase_raw # None
    /\ normalize_phrase_caps(phrase_raw) # abbr_dict[abbr]
    /\ Len(written) >= 1

\* C2 (SpecNorm): normalize_phrase_caps is idempotent: normalizing its own
\* output returns that output.
C2_Idempotent == npc = "twice" => twice = once

\* C3 (Spec), as claimed: for "4-digit IPC (IPC4)" the mapping is
\* {"IPC4": "4-Digit IPC"}.
C3_TitleCasedDigitWord ==
    (text = T_DigitFront /\ pc = "done")
        => abbr_dict = (K_IPC4 :> << "4","-","D","i","g","i","t"," ","I","P","C" >>)

\* C3 (Spec), amended: for "4-digit IPC (IPC4)" the first pass inserts key
\* IPC4 and the mapping returned is {"IPC4": "4-digit IPC"}: the word
\* "4-digit" contains a digit, so the normalizer keeps it unchanged.
C3_DigitWordKept ==
    /\ (text = T_DigitFront /\ pc = "pass0b")
           => written = << << K_IPC4, << "4","-","d","i","g","i","t"," ","I","P","C" >> >> >>
    /\ (text = T_DigitFront /\ pc = "done")
           => abbr_dict = (K_IPC4 :> << "4","-","d","i","g","i","t"," ","I","P","C" >>)

C3_Witness == text = T_DigitFront /\ pc = "done" /\ K_IPC4 \in DOMAIN abbr_dict

\* C4 (Spec), as claimed: for "The organization uses Intramuscular injection
\* (IM) routinely." the mapping is {"IM": "Intramuscular"}.
C4_IntramuscularStored ==
    (text = T_Intramuscular /\ pc = "done")
        => abbr_dict = (K_IM :> W_Intramuscular)

\* C4 (Spec), amended: for that text no suffix of the lookback words is
\* accepted for "IM" and the mapping returned is empty; the prefix-splitting
\* attempt accepts the single word "Intramuscular" when it is the last word
\* before the parenthesis, as in "The organization uses Intramuscular (IM)
\* routinely.", whose mapping is {"IM": "Intramuscular"}.
C4_NoSuffixAccepted ==
    /\ (text = T_Intramuscular /\ pc = "loop") => best_words = << >>
    /\ (text = T_Intramuscular /\ pc = "done") => abbr_dict = EmptyDict
    /\ (text = T_IntramuscularOnly /\ pc = "loop" /\ start = Len(words))
           => best_words = << W_Intramuscular >>
    /\ (text = T_IntramuscularOnly /\ pc = "done")
           => abbr_dict = (K_IM :> W_Intramuscular)

\* the suffix loop has run over all five lookback words for "IM"
C4_Witness ==
    /\ text = T_Intramuscular
    /\ pc = "done"
    /\ abbr = K_IM
    /\ Len(words) = 5
    /\ start = Len(words)

\* C5 (Spec): every token that pass 1 or pass 2 passes to
\* phrase_matches_abbr has a letters-only form of length at least 1.
C5_LettersOnlyNonEmpty ==
    (pc = "check1" \/ (pc = "loop" /\ start < Len(words)))
        => Len(LettersOnly(abbr)) >= 1

\* C6 (SpecNorm): the output of normalize_phrase_caps has as many
\* whitespace-delimited words as its input (so no output word is empty).
C6_WordCountPreserved ==
    npc # "start" => Len(Split(once)) = Len(Split(phrase))

\* a phrase of two or more words whose last word lost its possessive marker
C6_Witness ==
    /\ npc = "once"
    /\ Len(Split(phrase)) >= 2
    /\ LET lw == Split(phrase)[Len(Split(phrase))]
           ow == Split(once)[Len(Split(once))]
       IN  /\ Len(lw) >= 3
           /\ lw[Len(lw) - 1] = "'"
           /\ lw[Len(lw)] = "s"
           /\ Len(ow) = Len(lw) - 2

\* the matcher that always runs both attempts
matches_both_attempts(ws, a) ==
    LET base == build_initials(ws, HasAmp(a), FALSE)
        pref == build_initials(ws, HasAmp(a), TRUE)
    IN  check(a, base.initials, base.has_and) \/ check(a, pref.initials, pref.has_and)

\* C7 (SpecMatch): the early 'return False' never changes the result:
\* phrase_matches_abbr equals the matcher that always runs both attempts.
C7_EarlyReturnHarmless ==
    mpc = "matched" => mresult = matches_both_attempts(mwords, mabbr)

\* the upper-cased first letters of the words that are neither empty after
\* the boundary strip, nor stop-words, nor "and"
SignificantInitials(ws) ==
    Gather(LAMBDA i :
               LET core == Strip(ws[i], BoundaryPunct)
               IN  IF core = << >> \/ StrLower(core) \in PREPS \/ StrLower(core) = AND
                   THEN << >>
                   ELSE InitialOf(first_alpha_char(core)),
           1, Len(ws))

\* C8 (Spec): when pass 2 truncates an accepted word list for a two-letter
\* '&' abbreviation, the initials of the result are exactly the two letters
\* and the phrase stored for the abbreviation is not empty.
C8_TruncationKeepsBothLetters ==
    truncated # << >>
        => /\ SignificantInitials(truncated[1]) = LettersOnly(abbr)
           /\ abbr_dict[abbr] # << >>

\* the starting indices whose suffix of words the matcher accepts
MatchingStarts ==
    { s \in 0..(Len(words) - 1) :
          phrase_matches_abbr(Slice(words, s, Len(words)), abbr) }

\* C9 (Spec): after the suffix loop the candidate retained is words[s:] for
\* the largest starting index s that matches; when no index matches there is
\* no candidate and the step that ends the loop inserts nothing.
C9_LargestMatchingStart ==
    [][ (pc = "loop" /\ start = Len(words))
            => IF MatchingStarts = { }
               THEN best_words = << >> /\ abbr_dict' = abbr_dict
               ELSE /\ best_words = Slice(words, Greatest(MatchingStarts), Len(words))
                    /\ \A s \in MatchingStarts : Len(best_words) <= Len(words) - s
      ]_vars

\* the loop has ended with two or more matching suffixes
C9_Witness ==
    /\ pc = "loop"
    /\ start = Len(words)
    /\ Cardinality(MatchingStarts) >= 2
    /\ best_words # << >>
    /\ best_words # words

\* C10 (SpecMatch): a token with '&' is accepted only if some word, stripped
\* of the boundary punctuation and lower-cased, is exactly "and".
C10_AmpersandNeedsAnd ==
    (mpc = "matched" /\ mresult /\ HasAmp(mabbr))
        => \E i \in 1..Len(mwords) : StrLower(Strip(mwords[i], BoundaryPunct)) = AND

\* a two-letter '&' token accepted with "And," as the only form of "and"
C10_Witness ==
    /\ mpc = "matched"
    /\ mresult
    /\ HasAmp(mabbr)
    /\ Len(LettersOnly(mabbr)) = 2
    /\ \E i \in 1..Len(mwords) : mwords[i] = W_AndComma
    /\ \A i \in 1..Len(mwords) : mwords[i] # W_and

====
